---- MODULE Spec2Model ----
(***************************************************************************)
(* Model of packages/backend/src/core/NoteEditService.ts: the edit of an   *)
(* existing note (NoteEditService.edit), its deferred fan-out              *)
(* (postNoteEdited), shutdown (dispose) and the NotificationManager.       *)
(***************************************************************************)
EXTENDS Integers, Sequences, FiniteSets, TLC

----------------------------------------------------------------------------
(* Values.  A nullable string is the string or NULL; a nullable object,    *)
(* list or boolean is None or Some(v).                                     *)

NULL == "null"
None == <<>>
Some(v) == <<v>>
Val(o) == o[1]

SeqToSet(s) == {s[i] : i \in DOMAIN s}

Visibilities == {"public", "home", "followers", "specified"}

----------------------------------------------------------------------------
(* The world around the edited note: users, channels, instance settings.   *)

\* MinimumUser.host of each user id: null for a local user
UserHost(u) ==
  CASE u = "u1" -> NULL
    [] u = "u2" -> NULL
    [] u = "u3" -> "silenced.example"
    [] OTHER    -> "remote.example"

Users == {"u1", "u2", "u3", "u4"}
ChannelIds == {"c1", "c2"}

isLocalUser(u) == UserHost(u) = NULL
isRemoteUser(u) == UserHost(u) # NULL

\* meta = await this.metaService.fetch()
meta ==
  [sensitiveWords  |-> {"nsfw"},
   prohibitedWords |-> {"spam"},
   silencedHosts   |-> {"silenced.example"}]

\* A text is a sequence of tokens: words, " " (white space), "@user"
\* mentions and "#tag" hashtags.
isKeyWordIncluded(text, words) == \E i \in DOMAIN text : text[i] \in words

isSilencedHost(silencedHosts, host) == host # NULL /\ host \in silencedHosts

\* A note other than the edited one (a reply or renote target).  Its id is
\* modelled by the record itself.
OtherNote(userId, visibility, localOnly, channelId) ==
  [userId     |-> userId,
   userHost   |-> UserHost(userId),
   visibility |-> visibility,
   localOnly  |-> localOnly,
   channelId  |-> channelId]

----------------------------------------------------------------------------
(* Errors.                                                                 *)

Err(name, message, code) == [name |-> name, message |-> message, code |-> code]
NoError == Err(NULL, NULL, NULL)

ContainsProhibitedWordsError == Err("ContainsProhibitedWordsError", "", NULL)
RenoteTargetError == Err("Error", "Renote target is not public or home", NULL)
BlockedError == Err("Error", "blocked", NULL)
InvalidParamError == Err("Error", "invalid param", NULL)
DuplicatedError == Err("duplicated", "Duplicated note", NULL)

\* what notesRepository.update can throw
DuplicateKeyError == Err("QueryFailedError", "duplicate key value", "23505")
SerializationError == Err("QueryFailedError", "could not serialize", "40001")
ConnectionError == Err("Error", "connection terminated", NULL)
StorageErrors == {DuplicateKeyError, SerializationError, ConnectionError}

isDuplicateKeyValueError(e) == e.name = "QueryFailedError" /\ e.code = "23505"

Throw(d, e) == [d EXCEPT !.err = e]
Failed(d) == d.err # NoError

----------------------------------------------------------------------------
(* NoteEditService.edit, step by step.  d is the Option object `data`      *)
(* together with the acting user, the error thrown so far (err) and the    *)
(* locals tags and mentionedUsers; t is targetNote.                        *)

\* if (data.reply == null) data.reply = targetNote.reply;
\* if (data.channel == null) data.channel = targetNote.channel;
InheritRelations(d, t) ==
  [d EXCEPT !.reply   = IF d.reply = None THEN t.reply ELSE d.reply,
            !.channel = IF d.channel = NULL THEN t.channel ELSE d.channel]

\* a reply outside the channel / inside a channel takes the reply's scope
AdoptReplyChannel(d) ==
  LET d1 == IF d.reply # None /\ d.channel # NULL
               /\ Val(d.reply).channelId # d.channel
            THEN [d EXCEPT !.channel = Val(d.reply).channelId]
            ELSE d
  IN IF d1.reply # None /\ d1.channel = NULL /\ Val(d1.reply).channelId # NULL
     THEN [d1 EXCEPT !.channel = Val(d1.reply).channelId]
     ELSE d1

\* the remaining `if (data.x == null) data.x = targetNote.x` defaults
InheritFields(d, t) ==
  [d EXCEPT
     !.visibility = IF d.visibility = NULL THEN t.visibility ELSE d.visibility,
     !.localOnly  = IF d.localOnly = None THEN Some(t.localOnly) ELSE d.localOnly,
     !.renote     = IF d.renote = None /\ t.renoteId # None THEN t.renoteId ELSE d.renote,
     !.reply      = IF d.reply = None /\ t.replyId # None THEN t.replyId ELSE d.reply,
     !.poll       = IF d.poll = None
                    THEN (IF t.hasPoll THEN t.poll ELSE None)
                    ELSE d.poll,
     !.files      = IF d.files = None THEN Some(t.fileIds) ELSE d.files,
     !.name       = IF d.name = NULL THEN t.name ELSE d.name,
     !.visibleUsers = IF d.visibleUsers = None THEN Some(t.visibleUserIds)
                      ELSE d.visibleUsers,
     !.reactionAcceptance = IF d.reactionAcceptance = NULL THEN t.reactionAcceptance
                            ELSE d.reactionAcceptance]

\* if (data.channel != null) data.visibility = 'public';
ForceChannelVisibility(d) ==
  IF d.channel # NULL THEN [d EXCEPT !.visibility = "public"] ELSE d

\* if (data.channel != null) data.visibleUsers = [];
ForceChannelVisibleUsers(d) ==
  IF d.channel # NULL THEN [d EXCEPT !.visibleUsers = Some(<<>>)] ELSE d

\* mutant: the channel does not force localOnly
ForceChannelLocalOnly_Skipped(d) == d

\* if (data.channel != null) data.localOnly = true;
ForceChannelLocalOnly(d) ==
  IF d.channel # NULL THEN [d EXCEPT !.localOnly = Some(TRUE)] ELSE d

\* data.cw ?? data.text ?? ''
KeywordText(d) ==
  IF d.cw # None THEN Val(d.cw)
  ELSE IF d.text # None THEN Val(d.text)
  ELSE <<>>

\* sensitive word or role policy: public becomes home
SensitiveDowngrade(d, canPublicNote) ==
  IF d.visibility = "public" /\ d.channel = NULL
  THEN IF isKeyWordIncluded(KeywordText(d), meta.sensitiveWords)
       THEN [d EXCEPT !.visibility = "home"]
       ELSE IF canPublicNote = FALSE
            THEN [d EXCEPT !.visibility = "home"]
            ELSE d
  ELSE d

ProhibitedWordsCheck(d) ==
  IF isKeyWordIncluded(KeywordText(d), meta.prohibitedWords)
  THEN Throw(d, ContainsProhibitedWordsError)
  ELSE d

\* mutant: every remote author is treated as silenced
SilencedDowngrade_AnyRemote(d) ==
  IF d.visibility = "public" /\ UserHost(d.user) # NULL
  THEN [d EXCEPT !.visibility = "home"]
  ELSE d

\* a public note of an author on a silenced host becomes home
SilencedDowngrade(d) ==
  LET inSilencedInstance == isSilencedHost(meta.silencedHosts, UserHost(d.user))
  IN IF d.visibility = "public" /\ inSilencedInstance /\ UserHost(d.user) # NULL
     THEN [d EXCEPT !.visibility = "home"]
     ELSE d

\* mutant: the specified case rejects only another author's note
RenoteConstraint_OwnSpecified(d) ==
  IF d.renote = None THEN d
  ELSE CASE Val(d.renote).visibility = "home" ->
              IF d.visibility = "public" THEN [d EXCEPT !.visibility = "home"] ELSE d
         [] Val(d.renote).visibility = "followers" ->
              IF Val(d.renote).userId # d.user
              THEN Throw(d, RenoteTargetError)
              ELSE [d EXCEPT !.visibility = "followers"]
         [] Val(d.renote).visibility = "specified" ->
              IF Val(d.renote).userId # d.user
              THEN Throw(d, RenoteTargetError)
              ELSE d
         [] OTHER -> d

\* mutant: the followers case does not look at the author
RenoteConstraint_AnyFollowers(d) ==
  IF d.renote = None THEN d
  ELSE CASE Val(d.renote).visibility = "home" ->
              IF d.visibility = "public" THEN [d EXCEPT !.visibility = "home"] ELSE d
         [] Val(d.renote).visibility = "followers" ->
              [d EXCEPT !.visibility = "followers"]
         [] Val(d.renote).visibility = "specified" -> Throw(d, RenoteTargetError)
         [] OTHER -> d

\* mutant: a home renote target does not cap the visibility
RenoteConstraint_HomeUncapped(d) ==
  IF d.renote = None THEN d
  ELSE CASE Val(d.renote).visibility = "followers" ->
              IF Val(d.renote).userId # d.user
              THEN Throw(d, RenoteTargetError)
              ELSE [d EXCEPT !.visibility = "followers"]
         [] Val(d.renote).visibility = "specified" -> Throw(d, RenoteTargetError)
         [] OTHER -> d

\* switch (data.renote.visibility)
RenoteConstraint(d) ==
  IF d.renote = None THEN d
  ELSE CASE Val(d.renote).visibility = "public" -> d
         [] Val(d.renote).visibility = "home" ->
              IF d.visibility = "public" THEN [d EXCEPT !.visibility = "home"] ELSE d
         [] Val(d.renote).visibility = "followers" ->
              IF Val(d.renote).userId # d.user
              THEN Throw(d, RenoteTargetError)
              ELSE [d EXCEPT !.visibility = "followers"]
         [] Val(d.renote).visibility = "specified" -> Throw(d, RenoteTargetError)
         [] OTHER -> d

\* !!note.renote && (!!note.text || !!note.cw || (!!note.files && !!note.files.length) || !!note.poll)
isQuote(d) ==
  /\ d.renote # None
  /\ \/ (d.text # None /\ Val(d.text) # <<>>)
     \/ (d.cw # None /\ Val(d.cw) # <<>>)
     \/ (d.files # None /\ Len(Val(d.files)) > 0)
     \/ d.poll # None

\* Check blocking; blockedBy is the set of users who block the acting user
BlockCheck(d, blockedBy) ==
  IF d.renote # None /\ ~isQuote(d)
     /\ Val(d.renote).userHost = NULL
     /\ Val(d.renote).userId # d.user
     /\ Val(d.renote).userId \in blockedBy
  THEN Throw(d, BlockedError)
  ELSE d

\* mutant: the visibility of the reply target is not looked at
ReplyDowngrade_Skipped(d) == d

\* mutant: a channel note keeps the visibility the channel forces
ReplyDowngrade_NotInChannel(d) ==
  IF d.reply # None /\ Val(d.reply).visibility # "public" /\ d.visibility = "public"
     /\ d.channel = NULL
  THEN [d EXCEPT !.visibility = "home"]
  ELSE d

\* a reply to a non-public note is not public
ReplyDowngrade(d) ==
  IF d.reply # None /\ Val(d.reply).visibility # "public" /\ d.visibility = "public"
  THEN [d EXCEPT !.visibility = "home"]
  ELSE d

\* renoting or replying to a local-only note is local-only
LocalOnlyPropagate(d) ==
  LET d1 == IF d.renote # None /\ Val(d.renote).localOnly /\ d.channel = NULL
            THEN [d EXCEPT !.localOnly = Some(TRUE)] ELSE d
  IN IF d1.reply # None /\ Val(d1.reply).localOnly /\ d1.channel = NULL
     THEN [d1 EXCEPT !.localOnly = Some(TRUE)] ELSE d1

\* trailing and leading white space removed (String.prototype.trim)
RECURSIVE TrimStart(_)
TrimStart(text) ==
  IF text # <<>> /\ Head(text) = " " THEN TrimStart(Tail(text)) ELSE text

RECURSIVE TrimEnd(_)
TrimEnd(text) ==
  IF text # <<>> /\ text[Len(text)] = " "
  THEN TrimEnd(SubSeq(text, 1, Len(text) - 1))
  ELSE text

trim(text) == TrimEnd(TrimStart(text))

DB_MAX_NOTE_TEXT_LENGTH == 8192

\* if (data.text) { slice, trim } else { data.text = null }
NormalizeText(d) ==
  IF d.text # None /\ Val(d.text) # <<>>
  THEN LET sliced == IF Len(Val(d.text)) > DB_MAX_NOTE_TEXT_LENGTH
                     THEN SubSeq(Val(d.text), 1, DB_MAX_NOTE_TEXT_LENGTH)
                     ELSE Val(d.text)
       IN [d EXCEPT !.text = Some(trim(sliced))]
  ELSE [d EXCEPT !.text = None]

\* A tag is [name, len]: len is its number of Unicode code points.
Tag(name, len) == [name |-> name, len |-> len]

MaxTagLength == 128
MaxTags == 32

\* the tag names of the inputs, and the hashtag token of each
TagNames ==
  <<"t01", "t02", "t03", "t04", "t05", "t06", "t07", "t08", "t09", "t10",
    "t11", "t12", "t13", "t14", "t15", "t16", "t17", "t18", "t19", "t20",
    "t21", "t22", "t23", "t24", "t25", "t26", "t27", "t28", "t29", "t30",
    "t31", "t32", "t33", "t34", "t35", "t36">>
HashtagTokens ==
  <<"#t01", "#t02", "#t03", "#t04", "#t05", "#t06", "#t07", "#t08", "#t09",
    "#t10", "#t11", "#t12", "#t13", "#t14", "#t15", "#t16", "#t17", "#t18",
    "#t19", "#t20", "#t21", "#t22", "#t23", "#t24", "#t25", "#t26", "#t27",
    "#t28", "#t29", "#t30", "#t31", "#t32", "#t33", "#t34", "#t35", "#t36">>

\* the names of more than 128 code points, and the one of exactly 128
LongTagNames == {"t02", "t20"}
EdgeTagName == "t05"

\* Array.from(tag).length of a tag name
TagLength(name) ==
  IF name \in LongTagNames THEN MaxTagLength + 1
  ELSE IF name = EdgeTagName THEN MaxTagLength
  ELSE 3

AllTags == [i \in DOMAIN TagNames |-> Tag(TagNames[i], TagLength(TagNames[i]))]

\* the hashtag a token stands for, if any
TokenHashtag(tok) ==
  CASE tok = "#Tag" -> Some(Tag("Tag", 3))
    [] tok = "#tag" -> Some(Tag("tag", 3))
    [] \E i \in DOMAIN HashtagTokens : HashtagTokens[i] = tok ->
         Some(AllTags[CHOOSE i \in DOMAIN HashtagTokens : HashtagTokens[i] = tok])
    [] OTHER -> None

\* the user a mention token resolves to (resolveUser(...).catch(() => null))
TokenMention(tok) ==
  CASE tok = "@u2" -> Some("u2")
    [] tok = "@u4" -> Some("u4")
    [] tok = "@ghost" -> Some(NULL)
    [] OTHER -> None

\* x => i === self.findIndex(y => y === x)
RECURSIVE Unique(_)
Unique(s) ==
  IF s = <<>> THEN <<>>
  ELSE LET init == Unique(SubSeq(s, 1, Len(s) - 1))
           x == s[Len(s)]
       IN IF x \in SeqToSet(init) THEN init ELSE Append(init, x)

\* the hashtags of the tokens, each once, in the order of first occurrence
extractHashtags(tokens) ==
  LET h == [i \in DOMAIN tokens |-> TokenHashtag(tokens[i])]
      first == SelectSeq([i \in DOMAIN tokens |-> i],
                         LAMBDA i : /\ h[i] # None
                                    /\ \A j \in 1..(i - 1) : h[j] # h[i])
  IN [k \in DOMAIN first |-> Val(h[first[k]])]

RECURSIVE ResolveMentions(_)
ResolveMentions(tokens) ==
  IF tokens = <<>> THEN <<>>
  ELSE LET m == TokenMention(Head(tokens))
       IN IF m = None \/ Val(m) = NULL THEN ResolveMentions(Tail(tokens))
          ELSE <<Val(m)>> \o ResolveMentions(Tail(tokens))

\* resolve every mention, drop the failed ones, drop duplicate users
extractMentionedUsers(tokens) == Unique(ResolveMentions(tokens))

\* tags.filter(tag => Array.from(tag).length <= 128).splice(0, 32)
FilterTags(tags) == SelectSeq(tags, LAMBDA tag : tag.len <= MaxTagLength)

\* mutant: the number of tags is not capped
CapTags_Unlimited(tags) == FilterTags(tags)

CapTags(tags) ==
  LET kept == FilterTags(tags)
  IN IF Len(kept) > MaxTags THEN SubSeq(kept, 1, MaxTags) ELSE kept

\* Parse MFM if needed: tags and mentionedUsers
Analyze(d) ==
  LET tokens == IF d.text # None THEN Val(d.text) ELSE <<>>
      cwTokens == IF d.cw # None THEN Val(d.cw) ELSE <<>>
      choiceTokens == IF d.poll # None THEN Val(d.poll).choices ELSE <<>>
      combinedTokens == tokens \o cwTokens \o choiceTokens
      tags == IF d.apHashtags # None THEN Val(d.apHashtags)
              ELSE extractHashtags(combinedTokens)
      mentionedUsers == IF d.apMentions # None THEN Val(d.apMentions)
                        ELSE extractMentionedUsers(combinedTokens)
  IN [d EXCEPT !.tags = CapTags(tags), !.mentionedUsers = mentionedUsers]

RECURSIVE PushMissing(_, _)
PushMissing(list, users) ==
  IF users = <<>> THEN list
  ELSE PushMissing(IF Head(users) \in SeqToSet(list) THEN list
                   ELSE Append(list, Head(users)),
                   Tail(users))

\* mutant: the reply author is added to neither list
AugmentMentions_NoReplyAuthor(d) ==
  IF d.visibility = "specified"
  THEN IF d.visibleUsers = None THEN Throw(d, InvalidParamError)
       ELSE [d EXCEPT !.mentionedUsers = PushMissing(@, Val(d.visibleUsers))]
  ELSE d

\* the reply author and the visible users join the mentions; the reply
\* author joins the visible users
AugmentMentions(d) ==
  LET d1 == IF d.reply # None /\ d.user # Val(d.reply).userId
               /\ Val(d.reply).userId \notin SeqToSet(d.mentionedUsers)
            THEN [d EXCEPT !.mentionedUsers = Append(@, Val(d.reply).userId)]
            ELSE d
  IN IF d1.visibility = "specified"
     THEN IF d1.visibleUsers = None THEN Throw(d1, InvalidParamError)
          ELSE LET d2 == [d1 EXCEPT !.mentionedUsers =
                                      PushMissing(@, Val(d1.visibleUsers))]
               IN IF d2.reply # None
                     /\ Val(d2.reply).userId \notin SeqToSet(Val(d2.visibleUsers))
                  THEN [d2 EXCEPT !.visibleUsers =
                                    Some(Append(Val(@), Val(d2.reply).userId))]
                  ELSE d2
     ELSE d1

\* case and width folding of a tag name
normalizeForSearch(tag) ==
  Tag(IF tag.name = "Tag" THEN "tag" ELSE tag.name, tag.len)

MapNormalize(tags) == [i \in DOMAIN tags |-> normalizeForSearch(tags[i])]

\* the record handed to notesRepository.update, as the stored row it leaves
BuildNote(d, t) ==
  [t EXCEPT
     !.fileIds = IF d.files # None THEN Val(d.files) ELSE <<>>,
     !.replyId = d.reply,
     !.renoteId = d.renote,
     !.channelId = d.channel,
     !.name = d.name,
     !.text = d.text,
     !.hasPoll = d.poll # None,
     !.cw = d.cw,
     !.tags = MapNormalize(d.tags),
     !.userId = d.user,
     !.localOnly = Val(d.localOnly),
     !.reactionAcceptance = d.reactionAcceptance,
     !.visibility = d.visibility,
     !.visibleUserIds = IF d.visibility = "specified"
                        THEN (IF d.visibleUsers # None THEN Val(d.visibleUsers) ELSE <<>>)
                        ELSE <<>>,
     !.mentions = IF Len(d.mentionedUsers) > 0 THEN d.mentionedUsers ELSE @]

\* the Option object of a call: the request plus the locals of edit
Data(user, req) ==
  [err |-> NoError, user |-> user, tags |-> <<>>, mentionedUsers |-> <<>>,
   text |-> req.text, cw |-> req.cw, name |-> req.name,
   visibility |-> req.visibility, localOnly |-> req.localOnly,
   reply |-> req.reply, renote |-> req.renote, channel |-> req.channel,
   poll |-> req.poll, files |-> req.files, visibleUsers |-> req.visibleUsers,
   reactionAcceptance |-> req.reactionAcceptance,
   apMentions |-> req.apMentions, apHashtags |-> req.apHashtags]

\* the statement s applied unless an earlier statement has thrown
Then(d, s(_)) == IF Failed(d) THEN d ELSE s(d)

\* edit up to the block check: the defaults, the channel, the keyword, host
\* and renote rules
ResolveRenote(user, req, env, t) ==
  LET d1  == InheritRelations(Data(user, req), t)
      d2  == AdoptReplyChannel(d1)
      d3  == InheritFields(d2, t)
      d4  == ForceChannelLocalOnly(ForceChannelVisibleUsers(ForceChannelVisibility(d3)))
      d5  == SensitiveDowngrade(d4, env.canPublicNote)
      d6  == ProhibitedWordsCheck(d5)
      d7  == Then(d6, SilencedDowngrade)
      d8  == Then(d7, RenoteConstraint)
  IN Then(d8, LAMBDA d : BlockCheck(d, env.blockedBy))

\* edit up to the store update: the resolved data, or the error thrown
Resolve(user, req, env, t) ==
  LET d9  == ResolveRenote(user, req, env, t)
      d10 == Then(d9, ReplyDowngrade)
      d11 == Then(d10, LocalOnlyPropagate)
      d12 == Then(d11, NormalizeText)
      d13 == Then(d12, Analyze)
  IN Then(d13, AugmentMentions)

----------------------------------------------------------------------------
(* State.                                                                  *)

VARIABLES
  notesRepository,  \* the stored row of the edited note
  call,             \* per caller: the edit call, its inputs and its outcome
  effects,          \* per caller: the calls its postNoteEdited pass has made
  aborted,          \* #shutdownController.signal.aborted
  notifier,         \* NotificationManager.notifier.id
  queue,            \* NotificationManager.queue
  pushed,           \* the push calls made so far: <<notifiee, reason>>
  notifications     \* the createNotification calls made by notify

vars == <<notesRepository, call, effects, aborted,
          notifier, queue, pushed, notifications>>
editVars == <<notesRepository, call, effects, aborted>>
managerVars == <<notifier, queue, pushed, notifications>>

Callers == {"c1", "c2"}

\* mutant: the catch block rethrows whatever it caught
StoreUpdate_Rethrow(d, e) ==
  IF Failed(d) \/ e = NoError THEN d ELSE Throw(d, e)

\* try { await this.notesRepository.update(...) } catch (e) { ... }
StoreUpdate(d, e) ==
  IF Failed(d) \/ e = NoError THEN d
  ELSE IF isDuplicateKeyValueError(e) THEN Throw(d, DuplicatedError)
  ELSE Throw(d, e)

\* mutant: the fan-out is scheduled before the outcome of the update is known
ScheduleFanout_Early(d, isAborted) ==
  IF isAborted THEN "aborted" ELSE "scheduled"

\* setImmediate('post updated', { signal }) is reached only when nothing
\* has thrown; with the signal already aborted it rejects at once
ScheduleFanout(d, isAborted) ==
  IF Failed(d) THEN "none"
  ELSE IF isAborted THEN "aborted"
  ELSE "scheduled"

\* targetNote as findOneByOrFail returns it, with or without its relations
TargetNote(row, relations) ==
  [row EXCEPT !.reply   = IF relations THEN row.replyId ELSE None,
              !.channel = IF relations THEN row.channelId ELSE NULL]

\* the row as the update leaves it (relations are not columns)
Row(note) == [note EXCEPT !.reply = None, !.channel = NULL]

NoRequest ==
  [text |-> None, cw |-> None, name |-> NULL, visibility |-> NULL,
   localOnly |-> None, reply |-> None, renote |-> None, channel |-> NULL,
   poll |-> None, files |-> None, visibleUsers |-> None,
   reactionAcceptance |-> NULL, apMentions |-> None, apHashtags |-> None]

DefaultEnv ==
  [canPublicNote |-> TRUE, blockedBy |-> {}, update |-> NoError,
   relations |-> FALSE, silent |-> FALSE, editor |-> NULL]

IdleCall ==
  [pc |-> "idle", user |-> NULL, req |-> NoRequest, env |-> DefaultEnv,
   target |-> None, data |-> None, err |-> NoError, note |-> None,
   attempted |-> FALSE, updated |-> FALSE, logged |-> FALSE,
   fanout |-> "none", fail |-> NULL, seen |-> None]

\* the outcome of edit on targetNote t: the call record of the caller
Outcome(user, req, env, t, resolved, d, isAborted) ==
  [pc |-> IF Failed(d) THEN "thrown" ELSE "returned",
   user |-> user, req |-> req, env |-> env,
   target |-> Some(t), data |-> Some(d), err |-> d.err,
   note |-> IF Failed(d) THEN None ELSE Some(Row(BuildNote(d, t))),
   attempted |-> ~Failed(resolved),
   updated |-> ~Failed(d),
   logged |-> ~Failed(d) /\ env.editor # NULL /\ env.editor # user,
   fanout |-> ScheduleFanout(d, isAborted),
   fail |-> NULL, seen |-> None]

\* edit(user, targetId, data, silent, editor)
Edit(c, user, req, env) ==
  /\ call[c].pc = "idle"
  /\ \E t \in {TargetNote(notesRepository, env.relations)} :
     \E resolved \in {Resolve(user, req, env, t)} :
     \E d \in {StoreUpdate(resolved, env.update)} :
     \E o \in {Outcome(user, req, env, t, resolved, d, aborted)} :
       /\ notesRepository' = IF o.updated THEN Val(o.note) ELSE notesRepository
       /\ call' = [call EXCEPT ![c] = o]
  /\ UNCHANGED <<effects, aborted, managerVars>>

----------------------------------------------------------------------------
(* postNoteEdited.  Every call the pass makes on a collaborator is         *)
(* recorded as an effect [kind, to, flag].                                 *)

Effect(kind, to, flag) == [kind |-> kind, to |-> to, flag |-> flag]
Call(kind) == Effect(kind, NULL, NULL)

\* the awaited steps: when one of them throws, the statements after it in
\* the same async function do not run
Awaited == {"notesRepository.findOneByOrFail", "metaService.fetch",
            "noteEntityService.pack", "renderNoteOrRenoteActivity"}

\* the calls that are made without await: a failure of theirs is a
\* rejected promise nobody waits for
Detached == {"notesChart.update", "hashtagService.updateHashtags",
             "endedPollNotificationQueue.add", "noteReadService.insertNoteUnread",
             "globalEventService.publishNotesStream", "queueService.webhookDeliver",
             "dm.execute", "channelsRepository.update", "searchService.indexNote"}

\* users with an active webhook subscribed to 'note'
WebhookUsers == {"u1"}

\* chart settings of meta
enableChartsForRemoteUser == FALSE
enableChartsForFederatedInstances == TRUE

\* charts, host registration, hashtags, poll expiry
CountersAndTags(note, user, d) ==
  {Call("notesChart.update")}
  \cup (IF enableChartsForRemoteUser \/ UserHost(user) = NULL
        THEN {Call("perUserNotesChart.update")} ELSE {})
  \cup (IF isRemoteUser(user)
        THEN {Call("instancesRepository.increment")}
             \cup (IF enableChartsForFederatedInstances
                   THEN {Call("instanceChart.updateNote")} ELSE {})
        ELSE {})
  \cup (IF d.visibility = "public" \/ d.visibility = "home"
        THEN {Call("hashtagService.updateHashtags")} ELSE {})
  \cup (IF d.poll # None /\ Val(d.poll).expiresAt
        THEN {Call("endedPollNotificationQueue.add")} ELSE {})

\* mutant: the mentioned users are marked for a specified note as well
Unreads_Both(user, d) ==
  (IF isLocalUser(user) THEN {Call("activeUsersChart.write")} ELSE {})
  \cup (IF d.visibility = "specified"
        THEN {Effect("noteReadService.insertNoteUnread", u, "specified") :
                u \in {x \in SeqToSet(Val(d.visibleUsers)) : isLocalUser(x)}}
        ELSE {})
  \cup {Effect("noteReadService.insertNoteUnread", u, "mentioned") :
          u \in {x \in SeqToSet(d.mentionedUsers) : isLocalUser(x)}}

\* the unread markers of a non-silent pass
Unreads(user, d) ==
  (IF isLocalUser(user) THEN {Call("activeUsersChart.write")} ELSE {})
  \cup (IF d.visibility = "specified"
        THEN {Effect("noteReadService.insertNoteUnread", u, "specified") :
                u \in {x \in SeqToSet(Val(d.visibleUsers)) : isLocalUser(x)}}
        ELSE {Effect("noteReadService.insertNoteUnread", u, "mentioned") :
                u \in {x \in SeqToSet(d.mentionedUsers) : isLocalUser(x)}})

\* if (data.localOnly) return null; else the Announce or Update activity
renderNoteOrRenoteActivity(d) ==
  IF Val(d.localOnly) THEN NULL
  ELSE IF d.renote # None /\ ~isQuote(d) THEN "Announce"
  ELSE "Update"

\* mutant: the followers collection is a recipient whatever the visibility
Deliver_FollowersAlways(note, user, d, fail) ==
  IF fail = "renderNoteOrRenoteActivity" THEN {}
  ELSE LET noteActivity == renderNoteOrRenoteActivity(d)
       IN {Effect("apDeliverManagerService.createDeliverManager", NULL, noteActivity)}
          \cup {Effect("dm.addDirectRecipe", u, noteActivity) :
                  u \in {x \in SeqToSet(d.mentionedUsers) : isRemoteUser(x)}}
          \cup (IF d.reply # None /\ Val(d.reply).userHost # NULL
                THEN {Effect("dm.addDirectRecipe", Val(d.reply).userId, noteActivity)}
                ELSE {})
          \cup (IF d.renote # None /\ Val(d.renote).userHost # NULL
                THEN {Effect("dm.addDirectRecipe", Val(d.renote).userId, noteActivity)}
                ELSE {})
          \cup {Effect("dm.addFollowersRecipe", NULL, noteActivity)}
          \cup (IF note.visibility \in {"public"}
                THEN {Effect("relayService.deliverToRelays", NULL, noteActivity)}
                ELSE {})
          \cup {Effect("dm.execute", NULL, noteActivity)}

\* the detached AP deliver block of a local user
Deliver(note, user, d, fail) ==
  IF fail = "renderNoteOrRenoteActivity" THEN {}
  ELSE LET noteActivity == renderNoteOrRenoteActivity(d)
       IN {Effect("apDeliverManagerService.createDeliverManager", NULL, noteActivity)}
          \cup {Effect("dm.addDirectRecipe", u, noteActivity) :
                  u \in {x \in SeqToSet(d.mentionedUsers) : isRemoteUser(x)}}
          \cup (IF d.reply # None /\ Val(d.reply).userHost # NULL
                THEN {Effect("dm.addDirectRecipe", Val(d.reply).userId, noteActivity)}
                ELSE {})
          \cup (IF d.renote # None /\ Val(d.renote).userHost # NULL
                THEN {Effect("dm.addDirectRecipe", Val(d.renote).userId, noteActivity)}
                ELSE {})
          \cup (IF note.visibility \in {"public", "home", "followers"}
                THEN {Effect("dm.addFollowersRecipe", NULL, noteActivity)} ELSE {})
          \cup (IF note.visibility \in {"public"}
                THEN {Effect("relayService.deliverToRelays", NULL, noteActivity)}
                ELSE {})
          \cup {Effect("dm.execute", NULL, noteActivity)}

\* what follows `await this.noteEntityService.pack(...)` inside if (!silent)
Published(note, user, d, fail) ==
  {Call("globalEventService.publishNotesStream"),
   Call("roleService.addNoteToRoleTimeline")}
  \cup (IF user \in WebhookUsers THEN {Call("queueService.webhookDeliver")} ELSE {})
  \cup (IF isLocalUser(user) THEN Deliver(note, user, d, fail) ELSE {})

\* the channel timestamp and the search index
ChannelAndIndex(note, d) ==
  (IF d.channel # NULL THEN {Call("channelsRepository.update")} ELSE {})
  \cup (IF note.text = None /\ note.cw = None THEN {}
        ELSE {Call("searchService.indexNote")})

\* postNoteEdited(note, user, data, silent, tags, mentionedUsers), where the
\* step `fail` (if any) fails
postNoteEdited(note, user, d, silent, fail) ==
  IF fail \in {"notesRepository.findOneByOrFail", "metaService.fetch"} THEN {}
  ELSE CountersAndTags(note, user, d)
       \cup (IF silent THEN ChannelAndIndex(note, d)
             ELSE Unreads(user, d)
                  \cup (IF fail = "noteEntityService.pack" THEN {}
                        ELSE Published(note, user, d, fail)
                             \cup ChannelAndIndex(note, d)))

\* the setImmediate callback of caller c's edit runs
Fanout(c, fail) ==
  /\ call[c].fanout = "scheduled"
  /\ effects' = [effects EXCEPT ![c] =
       postNoteEdited(notesRepository, call[c].user, Val(call[c].data),
                      call[c].env.silent, fail)]
  /\ call' = [call EXCEPT ![c].fanout = "done", ![c].fail = fail,
                          ![c].seen = Some(notesRepository)]
  /\ UNCHANGED <<notesRepository, aborted, managerVars>>

\* mutant: the abort does not reach the pending setImmediate promises
Dispose_KeepsScheduled ==
  /\ ~aborted
  /\ aborted' = TRUE
  /\ UNCHANGED <<notesRepository, call, effects, managerVars>>

\* dispose() / onApplicationShutdown(): the signal aborts, every pending
\* setImmediate promise rejects and the rejection is ignored
Dispose ==
  /\ ~aborted
  /\ aborted' = TRUE
  /\ call' = [c \in Callers |->
                IF call[c].fanout = "scheduled"
                THEN [call[c] EXCEPT !.fanout = "aborted"]
                ELSE call[c]]
  /\ UNCHANGED <<notesRepository, effects, managerVars>>

----------------------------------------------------------------------------
(* NotificationManager.                                                    *)

NotificationTypes == {"reply", "renote", "quote", "mention"}

\* index of the first queue entry of a target, 0 when there is none
Find(q, target) ==
  IF \E i \in DOMAIN q : q[i].target = target
  THEN CHOOSE i \in DOMAIN q :
         /\ q[i].target = target
         /\ \A j \in DOMAIN q : q[j].target = target => i <= j
  ELSE 0

\* mutant: a later trigger always replaces the reason
push_Overwrite(q, notifierId, notifiee, reason) ==
  IF notifierId = notifiee THEN q
  ELSE LET exist == Find(q, notifiee)
       IN IF exist # 0
          THEN [q EXCEPT ![exist].reason = reason]
          ELSE Append(q, [reason |-> reason, target |-> notifiee])

\* mutant: the notifier is queued like anybody else
push_Self(q, notifierId, notifiee, reason) ==
  LET exist == Find(q, notifiee)
  IN IF exist # 0
     THEN IF reason # "mention"
          THEN [q EXCEPT ![exist].reason = reason]
          ELSE q
     ELSE Append(q, [reason |-> reason, target |-> notifiee])

\* push(notifiee, reason) on queue q of the manager of notifierId
push(q, notifierId, notifiee, reason) ==
  IF notifierId = notifiee THEN q
  ELSE LET exist == Find(q, notifiee)
       IN IF exist # 0
          THEN IF reason # "mention"
               THEN [q EXCEPT ![exist].reason = reason]
               ELSE q
          ELSE Append(q, [reason |-> reason, target |-> notifiee])

\* the createNotification calls of notify(), in queue order
RECURSIVE notify(_, _)
notify(q, notifierId) ==
  IF q = <<>> THEN <<>>
  ELSE <<[target |-> Head(q).target, type |-> Head(q).reason,
          notifierId |-> notifierId]>> \o notify(Tail(q), notifierId)

MaxPushes == 3

Push(notifiee, reason) ==
  /\ Len(pushed) < MaxPushes
  /\ queue' = push(queue, notifier, notifiee, reason)
  /\ pushed' = Append(pushed, <<notifiee, reason>>)
  /\ UNCHANGED <<notifier, notifications, editVars>>

Notify ==
  /\ notifications = <<>>
  /\ queue # <<>>
  /\ notifications' = notify(queue, notifier)
  /\ UNCHANGED <<notifier, queue, pushed, editVars>>

----------------------------------------------------------------------------
(* Inputs.                                                                 *)

Hello == <<"hello">>
Spam == <<"hello", "spam">>
Nsfw == <<"nsfw">>

\* the edited note as the publish path left it
StoredNote(userId, visibility, localOnly, channelId, replyId, renoteId, visibleUserIds) ==
  [userId |-> userId, visibility |-> visibility, localOnly |-> localOnly,
   channelId |-> channelId, replyId |-> replyId, renoteId |-> renoteId,
   visibleUserIds |-> visibleUserIds, fileIds |-> <<>>, hasPoll |-> FALSE,
   poll |-> None, name |-> NULL, reactionAcceptance |-> NULL,
   text |-> Some(Hello), cw |-> None, tags |-> <<>>, mentions |-> <<>>,
   reply |-> None, channel |-> NULL]

PublicNote == StoredNote("u1", "public", FALSE, NULL, None, None, <<>>)
ChannelNote == StoredNote("u1", "public", TRUE, "c1", None, None, <<>>)
DirectNote == StoredNote("u1", "specified", FALSE, NULL, None, None, <<"u2">>)
OwnFollowersRenote ==
  StoredNote("u1", "followers", FALSE, NULL, None,
             Some(OtherNote("u1", "followers", FALSE, NULL)), <<>>)

\* a stored reply of u1 to a home note of u2
ReplyNote ==
  [StoredNote("u1", "home", FALSE, NULL,
              Some(OtherNote("u2", "home", FALSE, NULL)), None, <<>>)
     EXCEPT !.mentions = <<"u2">>]

\* reply and renote targets
RenoteTargets == {OtherNote(u, v, FALSE, NULL) : u \in {"u1", "u2"}, v \in Visibilities}
ReplyTargets == {OtherNote("u2", "home", FALSE, NULL), OtherNote("u2", "public", TRUE, "c1")}

Request(text, cw, visibility, localOnly, reply, renote, channel, visibleUsers) ==
  [NoRequest EXCEPT !.text = text, !.cw = cw, !.visibility = visibility,
                    !.localOnly = localOnly, !.reply = reply, !.renote = renote,
                    !.channel = channel, !.visibleUsers = visibleUsers]

InitManager ==
  /\ notifier = "u1"
  /\ queue = <<>>
  /\ pushed = <<>>
  /\ notifications = <<>>

InitEdit(targets) ==
  /\ notesRepository \in targets
  /\ call = [c \in Callers |-> IdleCall]
  /\ effects = [c \in Callers |-> {}]
  /\ aborted = FALSE

\* the edit service driven by the callers cs with inputs from the given sets
NextEdit(cs, users, reqs, envs, fails) ==
  \/ \E c \in cs :
       /\ call[c].pc = "idle"
       /\ \E user \in users, req \in reqs, env \in envs : Edit(c, user, req, env)
  \/ \E c \in cs :
       /\ call[c].fanout = "scheduled"
       /\ \E fail \in fails : Fanout(c, fail)
  \/ Dispose

----------------------------------------------------------------------------
(* Spec: two callers edit the same note; the store update may fail.        *)

Requests ==
  {Request(Some(Hello), None, v, None, None, None, ch, None) :
     v \in {NULL, "public", "followers"}, ch \in {NULL, "c1"}}

Envs == {[DefaultEnv EXCEPT !.update = e] :
           e \in {NoError, DuplicateKeyError, ConnectionError}}

Init == InitEdit({PublicNote}) /\ InitManager
Fails == {NULL} \cup Awaited \cup Detached
Next == NextEdit(Callers, {"u1"}, Requests, Envs, Fails)
Spec == Init /\ [][Next]_vars

----------------------------------------------------------------------------
(* SpecResolve: one edit, over the inputs of the visibility rules.         *)

ResolveRequests ==
  {Request(text, cw, v, lo, reply, renote, ch, vu) :
     text \in {None, Some(Hello), Some(Spam)},
     cw \in {None, Some(Hello), Some(Spam)},
     v \in Visibilities \cup {NULL},
     lo \in {None, Some(FALSE)},
     reply \in {None} \cup {Some(n) : n \in ReplyTargets},
     renote \in {None} \cup {Some(n) : n \in RenoteTargets},
     ch \in {NULL, "c1"},
     vu \in {None, Some(<<"u2">>)}}

InitResolve ==
  InitEdit({PublicNote, ChannelNote, DirectNote, OwnFollowersRenote, ReplyNote})
  /\ InitManager
NextResolve == NextEdit({"c1"}, {"u1"}, ResolveRequests, {DefaultEnv}, {NULL})
SpecResolve == InitResolve /\ [][NextResolve]_vars

----------------------------------------------------------------------------
(* SpecManager: a NotificationManager receiving push calls, then notify.   *)

InitNM == InitEdit({PublicNote}) /\ InitManager
NextNM ==
  \/ \E notifiee \in {"u1", "u2", "u3"}, reason \in NotificationTypes :
       Push(notifiee, reason)
  \/ Notify
SpecManager == InitNM /\ [][NextNM]_vars

----------------------------------------------------------------------------
(* SpecTags: one edit, over tag lists around the caps, supplied by the     *)
(* caller (apHashtags) or written as hashtags in the text.                 *)

TagLists ==
  {SubSeq(AllTags, a, b) : a \in 1..3, b \in {2, 3} \cup 31..36}
  \cup {SubSeq(AllTags, 1, 3) \o SubSeq(AllTags, 1, b) : b \in 30..36}

TagTexts ==
  {SubSeq(HashtagTokens, a, b) \o <<"hello", "#t01">> : a \in 1..3, b \in {3} \cup 33..36}

TagRequests ==
  {[NoRequest EXCEPT !.text = text, !.apHashtags = tags] :
     text \in {None, Some(Hello)} \cup {Some(x) : x \in TagTexts},
     tags \in {None} \cup {Some(l) : l \in TagLists}}

InitTags == InitEdit({PublicNote}) /\ InitManager
NextTags == NextEdit({"c1"}, {"u1"}, TagRequests, {DefaultEnv}, {NULL})
SpecTags == InitTags /\ [][NextTags]_vars

----------------------------------------------------------------------------
(* SpecPolicy: one edit by the author of the note, who is local, remote or *)
(* on a silenced host, under every role policy, silent or not.             *)

MentionText == <<"hello", "@u4">>

PolicyRequests ==
  {Request(text, cw, v, lo, reply, renote, ch, vu) :
     text \in {None, Some(Hello), Some(Nsfw), Some(MentionText)},
     cw \in {None, Some(Nsfw)},
     v \in Visibilities \cup {NULL},
     lo \in {None, Some(TRUE)},
     reply \in {None, Some(OtherNote("u2", "home", FALSE, NULL)),
                Some(OtherNote("u4", "public", FALSE, NULL))},
     renote \in {None, Some(OtherNote("u2", "home", FALSE, NULL)),
                 Some(OtherNote("u2", "public", FALSE, NULL)),
                 Some(OtherNote("u4", "public", FALSE, NULL))},
     ch \in {NULL, "c1"},
     vu \in {None, Some(<<"u2", "u4">>)}}

PolicyEnvs ==
  {[DefaultEnv EXCEPT !.canPublicNote = p, !.blockedBy = b, !.silent = s] :
     p \in BOOLEAN, b \in {{}, {"u2", "u4"}}, s \in BOOLEAN}

InitPolicy ==
  /\ InitEdit({StoredNote(u, "public", FALSE, NULL, None, None, <<>>) :
                 u \in {"u1", "u3", "u4"}})
  /\ InitManager
NextPolicy ==
  \/ /\ call["c1"].pc = "idle"
     /\ \E req \in PolicyRequests, env \in PolicyEnvs :
          Edit("c1", notesRepository.userId, req, env)
  \/ /\ call["c1"].fanout = "scheduled"
     /\ Fanout("c1", NULL)
  \/ Dispose
SpecPolicy == InitPolicy /\ [][NextPolicy]_vars

----------------------------------------------------------------------------
(* SpecReply: one edit, over mentions written in the text or supplied by   *)
(* the caller, reply targets in and out of a channel, and visible users;   *)
(* the target is read with or without its relations.                       *)

\* a stored reply of u1, in channel c1, to a note of u2 in that channel
ChannelReplyNote ==
  [StoredNote("u1", "public", TRUE, "c1",
              Some(OtherNote("u2", "public", TRUE, "c1")), None, <<>>)
     EXCEPT !.mentions = <<"u2">>]

ReplyRequests ==
  {[Request(text, None, v, None, reply, None, ch, vu) EXCEPT !.apMentions = m] :
     text \in {None, Some(Hello), Some(<<"@u2", "@u2", "@u4">>),
               Some(<<"@ghost", "@u2">>)},
     v \in {NULL, "public", "specified"},
     reply \in {None, Some(OtherNote("u2", "home", FALSE, NULL)),
                Some(OtherNote("u4", "public", FALSE, NULL)),
                Some(OtherNote("u1", "public", FALSE, NULL)),
                Some(OtherNote("u2", "public", TRUE, "c1"))},
     ch \in {NULL, "c2"},
     vu \in {None, Some(<<>>), Some(<<"u2">>), Some(<<"u2", "u4">>)},
     m \in {None, Some(<<"u2">>), Some(<<"u2", "u2">>), Some(<<"u4", "u2">>)}}

ReplyEnvs ==
  {[DefaultEnv EXCEPT !.relations = r, !.silent = s] : r \in BOOLEAN, s \in BOOLEAN}

InitReply ==
  InitEdit({PublicNote, DirectNote, ReplyNote, ChannelReplyNote}) /\ InitManager
NextReply == NextEdit({"c1"}, {"u1"}, ReplyRequests, ReplyEnvs, {NULL})
SpecReply == InitReply /\ [][NextReply]_vars

----------------------------------------------------------------------------
(* Properties.                                                             *)

Called(c) == call[c].pc # "idle"
Returned(c) == call[c].pc = "returned"
Thrown(c) == call[c].pc = "thrown"

HasProhibitedWord(text) ==
  text # None /\ isKeyWordIncluded(Val(text), meta.prohibitedWords)

\* the renote target of caller c's edit: the request's, else the target's
RenoteTargetOf(c) ==
  IF call[c].req.renote # None THEN call[c].req.renote
  ELSE Val(call[c].target).renoteId

\* the step is caller c's edit call
EditStep(c) == call[c].pc = "idle" /\ call'[c].pc # "idle"

\* C1: an edit whose subject (cw) or body text contains a prohibited keyword
\* throws ContainsProhibitedWordsError, updates nothing in the store and
\* schedules no fan-out, whatever the other inputs are (also when a clean cw
\* comes with a body that contains the keyword).
C1_ProhibitedWordRejected ==
  \A c \in Callers :
    (Called(c) /\ (HasProhibitedWord(call[c].req.cw)
                   \/ HasProhibitedWord(call[c].req.text)))
    => /\ call[c].err = ContainsProhibitedWordsError
       /\ ~call[c].updated
       /\ call[c].fanout = "none"
       /\ effects[c] = {}

\* C2: a successful edit whose resolved channel is non-null stores
\* visibility public, whatever the requested visibility, the reply target
\* and the renote target are.
C2_ChannelNoteIsPublic ==
  \A c \in Callers :
    (Returned(c) /\ Val(call[c].data).channel # NULL)
    => Val(call[c].note).visibility = "public"

\* C3: a successful edit whose resolved channel is non-null stores an empty
\* visible-user id list and localOnly = true, whatever visible users and
\* localOnly the request and the target carried.
C3_ChannelNoteIsLocalOnly ==
  \A c \in Callers :
    (Returned(c) /\ Val(call[c].data).channel # NULL)
    => /\ Val(call[c].note).visibleUserIds = <<>>
       /\ Val(call[c].note).localOnly = TRUE

C3_Witness ==
  \E c \in Callers :
    /\ Returned(c)
    /\ Val(call[c].data).channel # NULL
    /\ call[c].req.visibility = "specified"
    /\ call[c].req.visibleUsers = Some(<<"u2">>)
    /\ call[c].req.localOnly = Some(FALSE)
    /\ Val(call[c].target).visibleUserIds # <<>>
    /\ Val(call[c].note).localOnly = TRUE

\* C4: an edit whose renote target has visibility specified is rejected with
\* an error, whoever the author of the renote target is, quote or not,
\* whatever visibility is requested; it leaves the stored note as it was.
C4_SpecifiedRenoteRejected ==
  /\ [](\A c \in Callers :
          (Called(c) /\ RenoteTargetOf(c) # None
           /\ Val(RenoteTargetOf(c)).visibility = "specified")
          => (Thrown(c) /\ call[c].err # NoError /\ ~call[c].updated))
  /\ [][\A c \in Callers :
          (EditStep(c) /\ RenoteTargetOf(c)' # None
           /\ Val(RenoteTargetOf(c)').visibility = "specified")
          => notesRepository' = notesRepository]_vars

C4_Witness ==
  \E c \in Callers :
    /\ Thrown(c)
    /\ call[c].err = RenoteTargetError
    /\ RenoteTargetOf(c) = Some(OtherNote(call[c].user, "specified", FALSE, NULL))
    /\ isQuote(Val(call[c].data))
    /\ call[c].req.visibility = "specified"

\* C5: an edit whose renote target has visibility followers and another
\* author than the acting user is rejected with an error and leaves the
\* stored note as it was.  When the author is the acting user the renote
\* rule does not reject: the edit returns unless the prohibited-word check
\* or the store update throws, and the note it stores has visibility
\* followers.
C5_FollowersRenote ==
  /\ [](\A c \in Callers :
          (Called(c) /\ RenoteTargetOf(c) # None
           /\ Val(RenoteTargetOf(c)).visibility = "followers")
          => IF Val(RenoteTargetOf(c)).userId # call[c].user
             THEN Thrown(c) /\ call[c].err # NoError /\ ~call[c].updated
             ELSE \/ Returned(c) /\ Val(call[c].note).visibility = "followers"
                  \/ Thrown(c) /\ call[c].err = ContainsProhibitedWordsError
                  \/ Thrown(c) /\ call[c].attempted
                     /\ call[c].env.update # NoError)
  /\ [][\A c \in Callers :
          (EditStep(c) /\ RenoteTargetOf(c)' # None
           /\ Val(RenoteTargetOf(c)').visibility = "followers"
           /\ Val(RenoteTargetOf(c)').userId # call'[c].user)
          => notesRepository' = notesRepository]_vars

C5_Witness ==
  \E c \in Callers :
    /\ Returned(c)
    /\ call[c].req.renote = Some(OtherNote(call[c].user, "followers", FALSE, NULL))
    /\ call[c].req.visibility = "public"
    /\ Val(call[c].note).visibility = "followers"
    /\ notesRepository.visibility = "followers"

\* C6: when the store update fails with a uniqueness violation, edit throws
\* an error named 'duplicated' that is not the error caught; when it fails
\* with another storage error, edit throws that very error; in both cases
\* no fan-out is scheduled.
C6_StoreFailure ==
  \A c \in Callers :
    (call[c].attempted /\ call[c].env.update # NoError)
    => /\ Thrown(c)
       /\ call[c].fanout = "none"
       /\ effects[c] = {}
       /\ IF isDuplicateKeyValueError(call[c].env.update)
          THEN call[c].err.name = "duplicated" /\ call[c].err # call[c].env.update
          ELSE call[c].err = call[c].env.update

C6_Witness ==
  /\ call["c1"].attempted
  /\ call["c1"].env.update = DuplicateKeyError
  /\ call["c1"].err = DuplicatedError
  /\ call["c2"].attempted
  /\ call["c2"].env.update = ConnectionError
  /\ call["c2"].err = ConnectionError

\* C7: the calls of a fan-out pass are made only after the store update of
\* the same edit has completed; an edit that throws before or at the store
\* update makes none.
C7_FanoutAfterUpdate ==
  /\ [](\A c \in Callers : ~call[c].updated => effects[c] = {})
  /\ [][\A c \in Callers : effects'[c] # effects[c] => call[c].updated]_vars

C7_Witness ==
  /\ Thrown("c1") /\ call["c1"].attempted /\ effects["c1"] = {}
  /\ Returned("c2") /\ call["c2"].fanout = "done"
  /\ Call("channelsRepository.update") \in effects["c2"]
  /\ Call("searchService.indexNote") \in effects["c2"]

\* the sub-task a call or an awaited step belongs to
SubTask(kind) ==
  CASE kind = "noteEntityService.pack" -> "globalEventService.publishNotesStream"
    [] kind \in {"renderNoteOrRenoteActivity",
                 "apDeliverManagerService.createDeliverManager",
                 "dm.addDirectRecipe", "dm.addFollowersRecipe",
                 "relayService.deliverToRelays", "dm.execute"} -> "federation"
    [] OTHER -> kind

\* the calls caller c's pass makes when nothing fails
Expected(c) ==
  postNoteEdited(Val(call[c].seen), call[c].user, Val(call[c].data),
                 call[c].env.silent, NULL)

\* C8: in a fan-out pass in which one sub-task fails, every call of the
\* other sub-tasks is still made; in particular a failure of packing the
\* note leaves the channel update and the search indexing in place.
C8_FailureIsolation ==
  \A c \in Callers :
    (call[c].fanout = "done" /\ call[c].fail # NULL
     /\ call[c].fail # "notesRepository.findOneByOrFail")
    => \A e \in Expected(c) :
         SubTask(e.kind) # SubTask(call[c].fail) => e \in effects[c]

\* the reasons pushed so far for a target
PushedReasons(u) == {pushed[i][2] : i \in {j \in DOMAIN pushed : pushed[j][1] = u}}

C10_NoSelfNotification ==
  /\ \A i \in DOMAIN queue : queue[i].target # notifier
  /\ \A i \in DOMAIN notifications :
       /\ notifications[i].target # notifier
       /\ notifications[i].notifierId = notifier

C10_Witness ==
  /\ \E i \in DOMAIN pushed : pushed[i][1] = notifier
  /\ \E i \in DOMAIN pushed : pushed[i][1] # notifier
  /\ notifications # <<>>

\* the users a pass of caller c owes a notification: the reply author, the
\* renote or quote author and the mentioned local users, the acting user
\* excepted
NotificationTargets(c) ==
  LET d == Val(call[c].data)
  IN ((IF d.reply # None THEN {Val(d.reply).userId} ELSE {})
      \cup (IF d.renote # None THEN {Val(d.renote).userId} ELSE {})
      \cup {u \in SeqToSet(d.mentionedUsers) : isLocalUser(u)})
     \ {call[c].user}

\* C11: when the fan-out pass of a successful, non-silent edit has finished
\* without a failing step, a notification has been created for every user
\* other than the acting user who is the reply author, the renote or quote
\* author or a mentioned local user of the edited note.
C11_NotificationsEmitted ==
  \A c \in Callers :
    (Returned(c) /\ call[c].fanout = "done" /\ call[c].fail = NULL
     /\ ~call[c].env.silent)
    => \A u \in NotificationTargets(c) :
         \/ \E e \in effects[c] :
              e.kind = "notificationService.createNotification" /\ e.to = u
         \/ \E i \in DOMAIN notifications : notifications[i].target = u

\* the tag list an edit starts from: the caller's, else the hashtags of the
\* body, the content warning and the poll choices
TagInput(c) ==
  LET d == Val(call[c].data)
  IN IF d.apHashtags # None THEN Val(d.apHashtags)
     ELSE extractHashtags((IF d.text # None THEN Val(d.text) ELSE <<>>)
                          \o (IF d.cw # None THEN Val(d.cw) ELSE <<>>)
                          \o (IF d.poll # None THEN Val(d.poll).choices ELSE <<>>))

\* the k-th smallest element of a set of numbers
Nth(S, k) == CHOOSE i \in S : Cardinality({j \in S : j < i}) = k - 1

\* C12: whatever tag list an edit starts from, the edit does not fail, the
\* stored tag list has at most 32 entries of at most 128 code points each,
\* and it is, in input order, the (normalized) first 32 input tags of at
\* most 128 code points.
C12_TagCaps ==
  \A c \in Callers :
    Called(c)
    => /\ Returned(c)
       /\ LET in == TagInput(c)
              stored == Val(call[c].note).tags
              short == {i \in DOMAIN in : in[i].len <= 128}
          IN /\ Len(stored) <= 32
             /\ \A k \in DOMAIN stored : stored[k].len <= 128
             /\ Len(stored) = IF Cardinality(short) > 32 THEN 32
                              ELSE Cardinality(short)
             /\ \A k \in DOMAIN stored :
                  stored[k] = normalizeForSearch(in[Nth(short, k)])

C12_Witness ==
  \E c \in Callers :
    /\ Returned(c)
    /\ call[c].req.apHashtags = Some(AllTags)
    /\ Len(AllTags) > 32
    /\ \E i \in DOMAIN AllTags : AllTags[i].len > 128
    /\ Len(Val(call[c].note).tags) = 32
    /\ Val(call[c].note).tags[2] = AllTags[3]
    /\ notesRepository.tags = Val(call[c].note).tags

\* data.visibility of caller c's edit when the reply rule is reached
VisibilityBeforeReply(c) ==
  ResolveRenote(call[c].user, call[c].req, call[c].env, Val(call[c].target)).visibility

\* C13: a successful edit whose reply target (requested, or the one the
\* edited note already had) is not public never stores visibility public,
\* and stores home whenever its visibility had resolved to public before
\* the reply rule.
C13_ReplyDowngrade ==
  \A c \in Callers :
    (Returned(c) /\ Val(call[c].data).reply # None
     /\ Val(Val(call[c].data).reply).visibility # "public")
    => /\ Val(call[c].note).visibility # "public"
       /\ VisibilityBeforeReply(c) = "public"
          => Val(call[c].note).visibility = "home"

C13_Witness ==
  \E c \in Callers :
    /\ Returned(c)
    /\ Val(call[c].target).visibility = "public"
    /\ Val(call[c].target).replyId = None
    /\ call[c].req.visibility = NULL
    /\ call[c].req.reply = Some(OtherNote("u2", "home", FALSE, NULL))
    /\ VisibilityBeforeReply(c) = "public"
    /\ Val(call[c].note).visibility = "home"
    /\ notesRepository.visibility = "home"

\* C14: a successful edit that asks for visibility public, resolves to no
\* channel, is made by a poster whose role policy allows public notes and
\* has a renote target of visibility home written by another user stores
\* visibility home.
C14_HomeRenoteCaps ==
  \A c \in Callers :
    (Returned(c) /\ call[c].req.visibility = "public"
     /\ Val(call[c].data).channel = NULL
     /\ call[c].env.canPublicNote
     /\ RenoteTargetOf(c) # None
     /\ Val(RenoteTargetOf(c)).visibility = "home"
     /\ Val(RenoteTargetOf(c)).userId # call[c].user)
    => Val(call[c].note).visibility = "home"

C14_Witness ==
  \E c \in Callers :
    /\ Returned(c)
    /\ call[c].user = "u1"
    /\ call[c].req.visibility = "public"
    /\ call[c].req.reply = None
    /\ call[c].req.text = Some(Hello) /\ call[c].req.cw = None
    /\ Val(call[c].data).channel = NULL
    /\ call[c].env.canPublicNote
    /\ call[c].req.renote = Some(OtherNote("u2", "home", FALSE, NULL))
    /\ Val(call[c].note).visibility = "home"
    /\ notesRepository.visibility = "home"

HasSensitiveWord(text) ==
  text # None /\ isKeyWordIncluded(Val(text), meta.sensitiveWords)

\* the visibility caller c's edit starts from: the requested one, or the
\* target's when the request gives none
StartVisibility(c) ==
  IF call[c].req.visibility # NULL THEN call[c].req.visibility
  ELSE Val(call[c].target).visibility

\* C15: an edit that resolves to no reply, no renote and no channel, starts
\* from visibility public, has no sensitive or prohibited keyword in its
\* content warning or body, and is made by a poster whose role policy
\* allows public notes and who is local or not on a silenced host returns
\* and stores visibility public.
C15_PublicUnchanged ==
  \A c \in Callers :
    (Called(c)
     /\ call[c].req.reply = None /\ Val(call[c].target).replyId = None
     /\ call[c].req.renote = None /\ Val(call[c].target).renoteId = None
     /\ call[c].req.channel = NULL /\ Val(call[c].target).channel = NULL
     /\ StartVisibility(c) = "public"
     /\ ~HasSensitiveWord(call[c].req.cw) /\ ~HasSensitiveWord(call[c].req.text)
     /\ ~HasProhibitedWord(call[c].req.cw) /\ ~HasProhibitedWord(call[c].req.text)
     /\ call[c].env.canPublicNote
     /\ (isLocalUser(call[c].user)
         \/ ~isSilencedHost(meta.silencedHosts, UserHost(call[c].user))))
    => /\ Returned(c)
       /\ Val(call[c].note).visibility = "public"

C15_Witness ==
  \E c \in Callers :
    /\ Returned(c)
    /\ call[c].user = "u4" /\ isRemoteUser(call[c].user)
    /\ call[c].req = [NoRequest EXCEPT !.text = Some(Hello), !.visibility = "public"]
    /\ call[c].env.canPublicNote
    /\ Val(call[c].note).visibility = "public"
    /\ notesRepository.visibility = "public"

\* public > home > followers > specified
Rank(v) ==
  CASE v = "public" -> 3
    [] v = "home" -> 2
    [] v = "followers" -> 1
    [] v = "specified" -> 0

\* C16: a successful edit that resolves to no channel stores a visibility
\* equal to or narrower than the one it started from (the requested one, or
\* the target's when the request gives none), in the order public > home >
\* followers > specified.
C16_NeverWidens ==
  \A c \in Callers :
    (Returned(c) /\ Val(call[c].data).channel = NULL)
    => Rank(Val(call[c].note).visibility) <= Rank(StartVisibility(c))

\* C17: an edit whose store update is done and whose fan-out has not started
\* when the abort signal fires has its fan-out cancelled: the pass makes no
\* call then or later and raises no error, and the edit call has returned
\* the note it stored.
C17_DisposeCancelsFanout ==
  /\ [](\A c \in Callers :
          call[c].fanout = "aborted"
          => /\ effects[c] = {}
             /\ call[c].fail = NULL
             /\ Returned(c) /\ call[c].err = NoError
             /\ call[c].updated /\ call[c].note # None)
  /\ [][\A c \in Callers :
          (call[c].updated /\ call[c].fanout # "done" /\ aborted')
          => (call'[c].fanout = "aborted" /\ effects'[c] = {}
              /\ call'[c].note = call[c].note /\ call'[c].pc = "returned")]_vars

C17_Witness ==
  /\ aborted
  /\ Returned("c1") /\ call["c1"].updated /\ notesRepository.userId = "u1"
  /\ call["c1"].req.visibility = "followers"
  /\ call["c1"].fanout = "aborted" /\ effects["c1"] = {}
  /\ Returned("c2")
  /\ Val(call["c2"].target).visibility = "followers"
  /\ call["c2"].fanout = "done" /\ effects["c2"] # {}

\* the calls that add a recipient, broadcast to the relays or start delivery
FederationCalls ==
  {"dm.addDirectRecipe", "dm.addFollowersRecipe",
   "relayService.deliverToRelays", "dm.execute"}

\* C18: the fan-out pass of an edit that resolved to localOnly = true adds
\* no direct or followers recipient, makes no relay broadcast and executes
\* no delivery.
C18_LocalOnlySkipsFederation ==
  \A c \in Callers :
    (Returned(c) /\ call[c].fanout = "done" /\ Val(Val(call[c].data).localOnly))
    => \A e \in effects[c] : e.kind \notin FederationCalls

\* caller c's pass has made a call of this kind
Made(c, kind) == \E e \in effects[c] : e.kind = kind

\* C19: in a finished pass in which no step fails, of a non-silent edit by
\* a local user, the followers collection is made a recipient exactly when
\* the visibility of the edited note is public, home or followers, and the
\* activity is handed to the relays exactly when it is public; the pass of
\* a remote user's edit or of a silent edit makes no federation call.
C19_FollowersAndRelays ==
  \A c \in Callers :
    (Returned(c) /\ call[c].fanout = "done" /\ call[c].fail = NULL)
    => IF ~call[c].env.silent /\ isLocalUser(call[c].user)
       THEN /\ Made(c, "dm.addFollowersRecipe")
               <=> Val(call[c].seen).visibility \in {"public", "home", "followers"}
            /\ Made(c, "relayService.deliverToRelays")
               <=> Val(call[c].seen).visibility = "public"
       ELSE \A e \in effects[c] :
              e.kind \notin FederationCalls
                            \cup {"apDeliverManagerService.createDeliverManager"}

C19_Witness ==
  \E c \in Callers :
    /\ Returned(c) /\ call[c].fanout = "done"
    /\ ~call[c].env.silent /\ isLocalUser(call[c].user)
    /\ Val(call[c].seen).visibility = "specified"
    /\ Val(call[c].seen).visibleUserIds = <<"u2", "u4">>
    /\ Made(c, "dm.addDirectRecipe") /\ Made(c, "dm.execute")
    /\ ~Made(c, "dm.addFollowersRecipe")
    /\ ~Made(c, "relayService.deliverToRelays")

\* C20: a successful edit stores, for the body text, the content warning,
\* the name, the files and the reaction acceptance, the target's value
\* whenever the request leaves the field null; an edit that specifies
\* nothing stores the text and the content warning the target had.
C20_UnspecifiedInherits ==
  \A c \in Callers :
    Returned(c)
    => LET req == call[c].req
           t == Val(call[c].target)
           note == Val(call[c].note)
       IN /\ req.text = None => note.text = t.text
          /\ req.cw = None => note.cw = t.cw
          /\ req.name = NULL => note.name = t.name
          /\ req.files = None => note.fileIds = t.fileIds
          /\ req.reactionAcceptance = NULL
             => note.reactionAcceptance = t.reactionAcceptance

\* C21: a note stored by a successful edit with visibility specified has a
\* non-empty visible-user id list; an edit that resolves to specified with
\* no visible user is rejected instead of being stored.
C21_SpecifiedHasVisibleUsers ==
  \A c \in Callers :
    (Returned(c) /\ Val(call[c].note).visibility = "specified")
    => Val(call[c].note).visibleUserIds # <<>>

\* no element of the list occurs twice
NoDuplicates(list) ==
  \A i, j \in DOMAIN list : list[i] = list[j] => i = j

\* C22: the mention list stored by a successful edit holds no user id
\* twice, whether the mentions come from the text or from the caller, and
\* after the reply author and the visible users have been added.
C22_MentionsUnique ==
  \A c \in Callers :
    Returned(c) => NoDuplicates(Val(call[c].note).mentions)

\* the unread markers caller c's pass has recorded
Markers(c) ==
  {e \in effects[c] : e.kind = "noteReadService.insertNoteUnread"}

\* C23: a finished non-silent pass has recorded an unread marker flagged
\* 'specified' for exactly the local users of the stored visible-user list
\* when the resolved visibility is specified, and otherwise a marker
\* flagged 'mentioned' for exactly the local mentioned users; never both
\* kinds.  A silent pass has recorded none.
C23_UnreadMarkers ==
  \A c \in Callers :
    (Returned(c) /\ call[c].fanout = "done" /\ call[c].fail = NULL)
    => LET d == Val(call[c].data)
           note == Val(call[c].note)
       IN IF call[c].env.silent THEN Markers(c) = {}
          ELSE IF d.visibility = "specified"
          THEN Markers(c) =
                 {Effect("noteReadService.insertNoteUnread", u, "specified") :
                    u \in {x \in SeqToSet(note.visibleUserIds) : isLocalUser(x)}}
          ELSE Markers(c) =
                 {Effect("noteReadService.insertNoteUnread", u, "mentioned") :
                    u \in {x \in SeqToSet(d.mentionedUsers) : isLocalUser(x)}}

C23_Witness ==
  \E c \in Callers :
    /\ Returned(c) /\ call[c].fanout = "done" /\ ~call[c].env.silent
    /\ Val(call[c].data).visibility = "specified"
    /\ Val(call[c].note).visibleUserIds = <<"u2", "u4">>
    /\ Val(call[c].note).mentions = <<"u2", "u4">>
    /\ Markers(c) = {Effect("noteReadService.insertNoteUnread", "u2", "specified")}

\* C24: an edit that is a pure renote (not a quote) of a note whose author
\* is another user who has blocked the acting user is rejected with an
\* error and updates nothing in the store, whether that author is local or
\* remote.
C24_BlockedRenoteRejected ==
  \A c \in Callers :
    (Called(c) /\ RenoteTargetOf(c) # None
     /\ ~isQuote(Val(call[c].data))
     /\ Val(RenoteTargetOf(c)).userId # call[c].user
     /\ Val(RenoteTargetOf(c)).userId \in call[c].env.blockedBy)
    => /\ Thrown(c) /\ call[c].err # NoError
       /\ ~call[c].updated

\* the step is a push for a target that is already queued
Requeued(u) ==
  /\ Len(pushed') = Len(pushed) + 1
  /\ pushed'[Len(pushed')][1] = u
  /\ Find(queue, u) # 0

\* C25: a push for a target that is already queued leaves the reason of
\* that target as it was, except when the queued reason is 'mention' and
\* the new one is 'reply'.
C25_FirstReasonKept ==
  [][\A u \in Users :
       (Requeued(u)
        /\ ~(queue[Find(queue, u)].reason = "mention"
             /\ pushed'[Len(pushed')][2] = "reply"))
       => queue'[Find(queue, u)].reason = queue[Find(queue, u)].reason]_vars

\* the visible users caller c's edit is given: the request's, or the
\* target's when the request gives none
SuppliedVisibleUsers(c) ==
  IF call[c].req.visibleUsers # None THEN Val(call[c].req.visibleUsers)
  ELSE Val(call[c].target).visibleUserIds

\* C26: after a successful edit with a reply target, the reply author, when
\* other than the acting user, is in the stored mention list; and when the
\* resolved visibility is specified the reply author is in the stored
\* visible-user id list and every visible user given to the edit is in the
\* stored mention list.
C26_ReplyAuthorIncluded ==
  \A c \in Callers :
    (Returned(c) /\ Val(call[c].data).reply # None)
    => LET author == Val(Val(call[c].data).reply).userId
           note == Val(call[c].note)
       IN /\ author # call[c].user => author \in SeqToSet(note.mentions)
          /\ note.visibility = "specified"
             => /\ author \in SeqToSet(note.visibleUserIds)
                /\ \A u \in SeqToSet(SuppliedVisibleUsers(c)) :
                     u \in SeqToSet(note.mentions)

C26_Witness ==
  \E c \in Callers :
    /\ Returned(c)
    /\ call[c].req.reply = Some(OtherNote("u4", "public", FALSE, NULL))
    /\ call[c].req.visibility = "specified"
    /\ call[c].req.visibleUsers = Some(<<"u2">>)
    /\ call[c].req.apMentions = None /\ call[c].req.text = Some(Hello)
    /\ Val(call[c].note).mentions = <<"u4", "u2">>
    /\ Val(call[c].note).visibleUserIds = <<"u2", "u4">>

\* C27: a successful edit whose request gives no channel and whose reply
\* target (the request's, or the one the edited note already had) lies in a
\* channel stores that channel as the note's channel.
C27_ReplyChannelAdopted ==
  \A c \in Callers :
    (Returned(c) /\ call[c].req.channel = NULL
     /\ Val(call[c].data).reply # None
     /\ Val(Val(call[c].data).reply).channelId # NULL)
    => Val(call[c].note).channelId = Val(Val(call[c].data).reply).channelId

\* C28: also when another edit of the same note commits between an edit's
\* store update and its fan-out, a finished, failure-free pass of a local
\* user's non-silent edit chooses its federation recipients by the
\* visibility of that same edit, the one whose resolved data decides its
\* hashtag update and its unread markers: followers exactly for public,
\* home and followers, relays exactly for public.
C28_ConsistentSnapshot ==
  \A c \in Callers :
    (Returned(c) /\ call[c].fanout = "done" /\ call[c].fail = NULL
     /\ ~call[c].env.silent /\ isLocalUser(call[c].user))
    => LET d == Val(call[c].data)
       IN /\ Made(c, "dm.addFollowersRecipe")
             <=> d.visibility \in {"public", "home", "followers"}
          /\ Made(c, "relayService.deliverToRelays") <=> d.visibility = "public"
          /\ Made(c, "hashtagService.updateHashtags")
             <=> d.visibility \in {"public", "home"}

\* C29: a note stored by a successful edit with visibility public has no
\* reply target and no renote target of another visibility than public, in
\* a channel or not, quote or pure renote.
C29_PublicHasPublicTargets ==
  \A c \in Callers :
    (Returned(c) /\ Val(call[c].note).visibility = "public")
    => LET note == Val(call[c].note)
       IN /\ note.replyId # None => Val(note.replyId).visibility = "public"
          /\ note.renoteId # None => Val(note.renoteId).visibility = "public"

C29_Witness ==
  \E c \in Callers :
    /\ Returned(c)
    /\ Val(call[c].note).visibility = "public"
    /\ Val(call[c].note).channelId = "c1"
    /\ Val(call[c].note).replyId = Some(OtherNote("u2", "public", TRUE, "c1"))
    /\ Val(call[c].note).renoteId = Some(OtherNote("u2", "public", FALSE, NULL))
    /\ isQuote(Val(call[c].data))
    /\ call[c].req.visibility = "specified"

====
